---- MODULE Spec2Model ----
(***************************************************************************)
(* Danbooru Random Tag Generator (danbooru_tag_gen_no_chara_ui.py).       *)
(*                                                                         *)
(* Strings are sequences of one-character strings, so that str.split,     *)
(* str.replace, str.strip, int() and the "artist: " prefix are computed   *)
(* character by character.  A Python list whose order is the arbitrary    *)
(* iteration order of a set (final_pool) is a bag: it keeps the number of *)
(* occurrences of every element and forgets the order.                    *)
(***************************************************************************)
EXTENDS Integers, Sequences, FiniteSets, Bags, TLC

\* ------------------------------------------------------------------ bounds
\* fetch_tags is called directly with count in -MaxNegative .. MaxCount
MaxCount == 2
MaxNegative == 1
\* thread slots available to threading.Thread(...).start()
MaxThreads == 2
\* user handlers run only while fewer than MaxQueue after-callbacks are pending
MaxQueue == 1

\* ------------------------------------------------------- program constants
\* needed_candidates = count * 3 + 20
CandidateFactor == 3
CandidateBuffer == 20
max_requests == 10

\* the prefix written without its space
ArtistPrefix_nospace == <<"a", "r", "t", "i", "s", "t", ":">>

\* "artist: "
ArtistPrefix == <<"a", "r", "t", "i", "s", "t", ":", " ">>

\* ------------------------------------------------------------ pure helpers
Whitespace == {" ", "\t", "\n"}

RECURSIVE SplitAcc(_, _, _)
SplitAcc(s, cur, out) ==
    IF s = <<>>
    THEN IF cur = <<>> THEN out ELSE Append(out, cur)
    ELSE IF Head(s) \in Whitespace
         THEN SplitAcc(Tail(s), <<>>, IF cur = <<>> THEN out ELSE Append(out, cur))
         ELSE SplitAcc(Tail(s), Append(cur, Head(s)), out)

\* str.split(): the maximal runs of non-whitespace characters, in order
split(s) == SplitAcc(s, <<>>, <<>>)

Range(f) == {f[k] : k \in DOMAIN f}

\* post.get(key, '')
Get(post, key) == IF key \in DOMAIN post THEN post[key] ELSE <<>>

\* f"https://danbooru.donmai.us/posts/{post['id']}"
PostUrl(id) == <<"https://danbooru.donmai.us/posts/", id>>

\* f"artist: {tag}"
ArtistTag(tag) == ArtistPrefix \o tag

\* the elements of a bag, each as often as it occurs
BagSize(b) == BagCardinality(b)

\* [f"artist: {tag}" for tag in S]: one entry for every element of S
RECURSIVE ArtistList(_)
ArtistList(S) ==
    IF S = {} THEN EmptyBag
    ELSE LET x == CHOOSE y \in S : TRUE
         IN  ArtistList(S \ {x}) (+) SetToBag({ArtistTag(x)})

\* the bag of the elements of a sequence
RECURSIVE SeqBag(_)
SeqBag(s) == IF s = <<>> THEN EmptyBag ELSE SeqBag(Tail(s)) (+) SetToBag({Head(s)})

\* k draws with replacement, as random.choices(population, k=k) makes them
Samples_replacement(pool, k) == [1..k -> BagToSet(pool)]

\* random.sample(population, k) for 0 <= k <= len(population): the elements at k
\* distinct positions of the list, in any order
Samples(pool, k) ==
    {s \in [1..k -> BagToSet(pool)] : SeqBag(s) \sqsubseteq pool}

\* random.shuffle(x): every ordering of the list
Shuffles(pool) ==
    {s \in [1..BagSize(pool) -> BagToSet(pool)] : SeqBag(s) = pool}

\* tag.replace('_', ' ')
replace(s) == [k \in DOMAIN s |-> IF s[k] = "_" THEN " " ELSE s[k]]

\* sep.join(list)
RECURSIVE join(_, _)
join(sep, list) ==
    IF list = <<>> THEN <<>>
    ELSE IF Len(list) = 1 THEN Head(list)
    ELSE Head(list) \o sep \o join(sep, Tail(list))

\* str.strip()
RECURSIVE lstrip(_)
lstrip(s) == IF s # <<>> /\ Head(s) \in Whitespace THEN lstrip(Tail(s)) ELSE s

RECURSIVE rstrip(_)
rstrip(s) ==
    IF s # <<>> /\ s[Len(s)] \in Whitespace THEN rstrip(SubSeq(s, 1, Len(s) - 1)) ELSE s

strip(s) == rstrip(lstrip(s))

\* sorted([tag.replace('_', ' ') for tag in pool]): a sorted list is determined by
\* the bag of its lines
RECURSIVE FormattedPool(_)
FormattedPool(pool) ==
    IF pool = EmptyBag THEN EmptyBag
    ELSE LET x == CHOOSE y \in BagToSet(pool) : TRUE
         IN  FormattedPool(pool (-) SetToBag({x})) (+) SetToBag({replace(x)})

Digits == <<"0", "1", "2", "3", "4", "5", "6", "7", "8", "9">>

DigitValue(c) == (CHOOSE k \in DOMAIN Digits : Digits[k] = c) - 1

RECURSIVE Decimal(_)
Decimal(ds) ==
    IF ds = <<>> THEN 0 ELSE Decimal(SubSeq(ds, 1, Len(ds) - 1)) * 10 + DigitValue(ds[Len(ds)])

\* a parse that gives 0 for what is no number, as C's atoi does
ParseInt_lenient(text) ==
    LET t      == strip(text)
        signed == t # <<>> /\ Head(t) \in {"+", "-"}
        ds     == IF signed THEN Tail(t) ELSE t
        valid  == ds # <<>> /\ \A k \in DOMAIN ds : ds[k] \in Range(Digits)
    IN  IF ~valid THEN [ok |-> TRUE, value |-> 0]
        ELSE [ok |-> TRUE,
              value |-> IF signed /\ Head(t) = "-" THEN 0 - Decimal(ds) ELSE Decimal(ds)]

\* int(text): surrounding whitespace dropped, an optional sign, then one or more
\* decimal digits; anything else raises ValueError (ok = FALSE)
ParseInt(text) ==
    LET t      == strip(text)
        signed == t # <<>> /\ Head(t) \in {"+", "-"}
        ds     == IF signed THEN Tail(t) ELSE t
        valid  == ds # <<>> /\ \A k \in DOMAIN ds : ds[k] \in Range(Digits)
    IN  IF ~valid THEN [ok |-> FALSE, value |-> 0]
        ELSE [ok |-> TRUE,
              value |-> IF signed /\ Head(t) = "-" THEN 0 - Decimal(ds) ELSE Decimal(ds)]

\* ---------------------------------------------------------------- messages
Msg(kind, n) == [kind |-> kind, n |-> n]
NoMsg == Msg("", 0)

\* ------------------------------------------------------ the API's responses
Spaced(chars) ==
    [k \in 1..(2 * Len(chars) - 1) |-> IF k % 2 = 1 THEN chars[(k + 1) \div 2] ELSE " "]

TagAB == <<"a", "_", "b">>

PostA == [id |-> 1,
          tag_string_general |-> TagAB,
          tag_string_artist |-> TagAB]
PostB1 == [id |-> 2,
           tag_string_general |-> Spaced(<<"b", "c", "d", "e">>),
           tag_string_copyright |-> <<"f">>,
           tag_string_character |-> <<" ", "g", " ", " ", "h", "\n">>,
           tag_string_meta |-> <<"i">>,
           tag_string_artist |-> Spaced(<<"j", "k">>)]
PostB2 == [tag_string_general |-> Spaced(<<"b", "c">>),
           tag_string_artist |-> <<"j">>]
PostC == [id |-> 3,
          tag_string_general |-> Spaced(<<"l", "m", "n", "o", "p", "q", "r">>),
          tag_string_copyright |-> <<>>,
          tag_string_character |-> <<>>,
          tag_string_meta |-> <<>>,
          tag_string_artist |-> Spaced(<<"s", "t", "b">>)]
PostD == [id |-> 4,
          tag_string_general |-> <<"a", "r", "t", "i", "s", "t", ":">> \o TagAB]

\* what one requests.get(...) / raise_for_status() / response.json() can give:
\* a RequestException, an empty list, or a list of posts
Responses ==
    << [ok |-> FALSE, posts |-> <<>>],
       [ok |-> TRUE, posts |-> <<>>],
       [ok |-> TRUE, posts |-> <<PostA>>],
       [ok |-> TRUE, posts |-> <<PostB1, PostB2>>],
       [ok |-> TRUE, posts |-> <<PostC>>],
       [ok |-> TRUE, posts |-> <<PostD>> ] >>

ResponseIds == DOMAIN Responses

\* what the user can have typed into an entry field
EntryTexts ==
    << <<>>, <<"x">>, <<"1", ".", "5">>, <<"-", "1">>, <<"0">>, <<" ", "1", " ">> >>

EntryIds == DOMAIN EntryTexts

\* what the file dialog and the write can do
SaveOutcomes == {"cancelled", "written", "IOError"}

\* ------------------------------------------------------------------- state
VARIABLES
    workers,              \* thread slot -> the frame of run_fetch_logic / fetch_tags
    mode,                 \* self.mode
    fixed_entry,          \* state of the three entry widgets
    min_entry,
    max_entry,
    generate_button,      \* state of the three buttons
    save_tags_button,
    save_sources_button,
    results_text,         \* text of the "Generated Tags" box
    tag_pool_text,        \* lines of the "Full Tag Pool" box
    tag_pool_label_var,
    status_var,
    post_source_urls,     \* self.post_source_urls
    full_tag_pool,        \* self.full_tag_pool
    afterQueue,           \* callbacks scheduled with root.after(0, ...)
    messagebox            \* the last message box shown

gui == <<mode, fixed_entry, min_entry, max_entry, generate_button, save_tags_button,
         save_sources_button, results_text, tag_pool_text, tag_pool_label_var,
         status_var, post_source_urls, full_tag_pool, afterQueue, messagebox>>

vars == <<workers, mode, fixed_entry, min_entry, max_entry, generate_button,
          save_tags_button, save_sources_button, results_text, tag_pool_text,
          tag_pool_label_var, status_var, post_source_urls, full_tag_pool,
          afterQueue, messagebox>>

Threads == 1..MaxThreads

NoRet == [tags |-> <<>>, post_urls |-> {}, full_pool |-> EmptyBag, message |-> NoMsg]

\* a slot no thread runs in
NoThread ==
    [pc |-> "none", count |-> 0, collected_tags |-> {}, collected_artist_tags |-> {},
     source_post_urls |-> {}, requests_made |-> 0, ret |-> NoRet]

\* fetch_tags(count) entered: the locals of lines 31-39
FetchEntry(count) ==
    [pc |-> "loop", count |-> count, collected_tags |-> {}, collected_artist_tags |-> {},
     source_post_urls |-> {}, requests_made |-> 0, ret |-> NoRet]

needed_candidates(count) == count * CandidateFactor + CandidateBuffer

\* the loop bound off by one
LoopCondition_offbyone(w) ==
    /\ Cardinality(w.collected_tags) + Cardinality(w.collected_artist_tags)
           < needed_candidates(w.count)
    /\ w.requests_made <= max_requests

\* the condition of the while loop
LoopCondition(w) ==
    /\ Cardinality(w.collected_tags) + Cardinality(w.collected_artist_tags)
           < needed_candidates(w.count)
    /\ w.requests_made < max_requests

\* the tags one post adds to collected_tags
PostTags(post) ==
    Range(split(Get(post, "tag_string_general")))
        \cup Range(split(Get(post, "tag_string_copyright")))
        \cup Range(split(Get(post, "tag_string_character")))
        \cup Range(split(Get(post, "tag_string_meta")))

PostArtistTags(post) == Range(split(Get(post, "tag_string_artist")))

PostUrls(post) == IF "id" \in DOMAIN post THEN {PostUrl(post["id"])} ELSE {}

\* return [], [], [], f"Error: Failed to fetch posts from Danbooru. {e}"
ErrorReturn == [tags |-> <<>>, post_urls |-> {}, full_pool |-> EmptyBag,
                message |-> Msg("Error", 0)]

\* a failed request that hands back the source posts collected so far
AfterRequest_partial(w, resp) ==
    LET made == w.requests_made + 1 IN
    IF ~resp.ok
    THEN [w EXCEPT !.requests_made = made, !.pc = "returned",
                   !.ret = [ErrorReturn EXCEPT !.post_urls = w.source_post_urls]]
    ELSE [w EXCEPT
            !.requests_made = made,
            !.source_post_urls =
                @ \cup UNION {PostUrls(resp.posts[k]) : k \in DOMAIN resp.posts},
            !.collected_tags =
                @ \cup UNION {PostTags(resp.posts[k]) : k \in DOMAIN resp.posts},
            !.collected_artist_tags =
                @ \cup UNION {PostArtistTags(resp.posts[k]) : k \in DOMAIN resp.posts}]

\* one iteration of the while loop of worker w, the request answered by resp
AfterRequest(w, resp) ==
    LET made == w.requests_made + 1 IN
    IF ~resp.ok
    THEN [w EXCEPT !.requests_made = made, !.pc = "returned", !.ret = ErrorReturn]
    ELSE [w EXCEPT
            !.requests_made = made,
            !.source_post_urls =
                @ \cup UNION {PostUrls(resp.posts[k]) : k \in DOMAIN resp.posts},
            !.collected_tags =
                @ \cup UNION {PostTags(resp.posts[k]) : k \in DOMAIN resp.posts},
            !.collected_artist_tags =
                @ \cup UNION {PostArtistTags(resp.posts[k]) : k \in DOMAIN resp.posts}]

\* final_pool = list(collected_tags) + [f"artist: {tag}" for tag in collected_artist_tags]
final_pool(w) == SetToBag(w.collected_tags) (+) ArtistList(w.collected_artist_tags)

\* the shortfall return without the source posts
WarningReturns_nosources(w) ==
    {[tags |-> s, post_urls |-> {}, full_pool |-> final_pool(w),
      message |-> Msg("Warning", BagSize(final_pool(w)))] : s \in Shuffles(final_pool(w))}

WarningReturns(w) ==
    {[tags |-> s, post_urls |-> w.source_post_urls, full_pool |-> final_pool(w),
      message |-> Msg("Warning", BagSize(final_pool(w)))] : s \in Shuffles(final_pool(w))}

SuccessReturns(w) ==
    {[tags |-> s, post_urls |-> w.source_post_urls, full_pool |-> final_pool(w),
      message |-> Msg("Success", Len(s))] : s \in Samples(final_pool(w), w.count)}

\* lines 81-91: what can follow the loop.  random.sample raises ValueError for a
\* negative count
AfterLoop(w) ==
    IF BagSize(final_pool(w)) < w.count
    THEN {[w EXCEPT !.pc = "returned", !.ret = r] : r \in WarningReturns(w)}
    ELSE IF w.count < 0
         THEN {[w EXCEPT !.pc = "raised"]}
         ELSE {[w EXCEPT !.pc = "returned", !.ret = r] : r \in SuccessReturns(w)}

\* ----------------------------------------------------- fetch_tags, stepwise
Request(i, resp) ==
    /\ workers[i].pc = "loop"
    /\ LoopCondition(workers[i])
    /\ workers' = [workers EXCEPT ![i] = AfterRequest(workers[i], resp)]
    /\ UNCHANGED gui

LoopIteration(i) == \E r \in ResponseIds : Request(i, Responses[r])

LoopExit(i) ==
    /\ workers[i].pc = "loop"
    /\ ~LoopCondition(workers[i])
    /\ \E w \in AfterLoop(workers[i]) : workers' = [workers EXCEPT ![i] = w]
    /\ UNCHANGED gui

\* -------------------------------------------------------------- the window
InitGui ==
    /\ mode = "fixed"
    /\ fixed_entry = "normal"
    /\ min_entry = "disabled"
    /\ max_entry = "disabled"
    /\ generate_button = "normal"
    /\ save_tags_button = "disabled"
    /\ save_sources_button = "disabled"
    /\ results_text = <<>>
    /\ tag_pool_text = EmptyBag
    /\ tag_pool_label_var = Msg("Full Tag Pool", 0)
    /\ status_var = Msg("Ready.", 0)
    /\ post_source_urls = {}
    /\ full_tag_pool = EmptyBag
    /\ afterQueue = <<>>
    /\ messagebox = NoMsg

\* self.root.after(0, fn, ...)
StatusCallback(message) == [fn |-> "status_var.set", tags |-> <<>>, message |-> message]
UpdateUiCallback(tags, message) == [fn |-> "update_ui", tags |-> tags, message |-> message]

\* update_status(message)
update_status(queue, message) == Append(queue, StatusCallback(message))

\* a thread that executes statements of run_fetch_logic
Running(i) == workers[i].pc \in {"start", "loop", "returned", "stored"}

\* toggle_mode, after the radio button set self.mode
toggle_mode(m) ==
    /\ mode' = m
    /\ fixed_entry' = IF m = "fixed" THEN "normal" ELSE "disabled"
    /\ min_entry' = IF m = "fixed" THEN "disabled" ELSE "normal"
    /\ max_entry' = IF m = "fixed" THEN "disabled" ELSE "normal"
    /\ UNCHANGED <<workers, generate_button, save_tags_button, save_sources_button,
                   results_text, tag_pool_text, tag_pool_label_var, status_var,
                   post_source_urls, full_tag_pool, afterQueue, messagebox>>

ToggleMode == \E m \in {"fixed", "random"} : toggle_mode(m)

\* lines 256-274: the counts the try block can hand to the thread, or the message
\* box it shows.  random.randint(a, b) gives any integer of a..b
Validated(fixed_text, min_text, max_text) ==
    IF mode = "fixed"
    THEN LET c == ParseInt(fixed_text)
         IN  IF c.ok THEN [box |-> NoMsg, counts |-> {c.value}]
             ELSE [box |-> Msg("Input Error: whole numbers", 0), counts |-> {}]
    ELSE LET min_val == ParseInt(min_text)
             max_val == ParseInt(max_text)
         IN  IF ~min_val.ok \/ ~max_val.ok
             THEN [box |-> Msg("Input Error: whole numbers", 0), counts |-> {}]
             ELSE IF min_val.value > max_val.value
             THEN [box |-> Msg("Input Error: minimum greater than maximum", 0),
                   counts |-> {}]
             ELSE [box |-> NoMsg, counts |-> min_val.value..max_val.value]

\* lines 239-254: the buttons disabled, the previous data and boxes cleared
ClearForGeneration ==
    /\ save_tags_button' = "disabled"
    /\ save_sources_button' = "disabled"
    /\ post_source_urls' = {}
    /\ full_tag_pool' = EmptyBag
    /\ results_text' = <<>>
    /\ tag_pool_text' = EmptyBag
    /\ tag_pool_label_var' = Msg("Full Tag Pool", 0)
    /\ UNCHANGED <<mode, fixed_entry, min_entry, max_entry, status_var>>

\* the thread started with the generate button left enabled
StartThread_enabled(count) ==
    /\ \E i \in Threads :
          /\ workers[i].pc = "none"
          /\ \A j \in Threads : workers[j].pc = "none" => i <= j
          /\ workers' = [workers EXCEPT ![i] = [NoThread EXCEPT !.pc = "start",
                                                               !.count = count]]
    /\ generate_button' = "normal"
    /\ afterQueue' = update_status(afterQueue, Msg("Validating input...", 0))
    /\ UNCHANGED messagebox

\* threading.Thread(target=self.run_fetch_logic, args=(count,), daemon=True).start()
StartThread(count) ==
    /\ \E i \in Threads :
          /\ workers[i].pc = "none"
          /\ \A j \in Threads : workers[j].pc = "none" => i <= j
          /\ workers' = [workers EXCEPT ![i] = [NoThread EXCEPT !.pc = "start",
                                                               !.count = count]]
    /\ generate_button' = "disabled"
    /\ afterQueue' = update_status(afterQueue, Msg("Validating input...", 0))
    /\ UNCHANGED messagebox

\* the two validation failures: message box, button enabled again, "Ready."
RejectInput(box) ==
    /\ messagebox' = box
    /\ generate_button' = "normal"
    /\ afterQueue' = update_status(update_status(afterQueue, Msg("Validating input...", 0)),
                                   Msg("Ready.", 0))
    /\ UNCHANGED workers

\* the command of the generate button, with the texts the entry fields hold
start_generation_thread(fixed_text, min_text, max_text) ==
    /\ generate_button = "normal"
    /\ Len(afterQueue) < MaxQueue
    /\ ClearForGeneration
    /\ LET v == Validated(fixed_text, min_text, max_text)
       IN  IF v.box = NoMsg
           THEN \E count \in v.counts : StartThread(count)
           ELSE RejectInput(v.box)

\* only the entry fields of the selected mode are read
Generate ==
    \/ /\ mode = "fixed"
       /\ \E f \in EntryIds : start_generation_thread(EntryTexts[f], <<>>, <<>>)
    \/ /\ mode = "random"
       /\ \E mn \in EntryIds, mx \in EntryIds :
             start_generation_thread(<<>>, EntryTexts[mn], EntryTexts[mx])

\* run_fetch_logic, line 282, then fetch_tags is entered
RunFetchStart(i) ==
    /\ workers[i].pc = "start"
    /\ afterQueue' = update_status(afterQueue, Msg("Fetching tags from random posts...", 0))
    /\ workers' = [workers EXCEPT ![i] = FetchEntry(workers[i].count)]
    /\ UNCHANGED <<mode, fixed_entry, min_entry, max_entry, generate_button,
                   save_tags_button, save_sources_button, results_text, tag_pool_text,
                   tag_pool_label_var, status_var, post_source_urls, full_tag_pool,
                   messagebox>>

\* run_fetch_logic, lines 283-285: the result unpacked into the instance fields
StoreResults(i) ==
    /\ workers[i].pc = "returned"
    /\ post_source_urls' = workers[i].ret.post_urls
    /\ full_tag_pool' = workers[i].ret.full_pool
    /\ workers' = [workers EXCEPT ![i] = [NoThread EXCEPT !.pc = "stored",
                                                         !.count = workers[i].count,
                                                         !.ret = workers[i].ret]]
    /\ UNCHANGED <<mode, fixed_entry, min_entry, max_entry, generate_button,
                   save_tags_button, save_sources_button, results_text, tag_pool_text,
                   tag_pool_label_var, status_var, afterQueue, messagebox>>

\* run_fetch_logic, line 288, after which the thread ends
ScheduleUpdateUi(i) ==
    /\ workers[i].pc = "stored"
    /\ afterQueue' = Append(afterQueue,
                            UpdateUiCallback(workers[i].ret.tags, workers[i].ret.message))
    /\ workers' = [workers EXCEPT ![i] = NoThread]
    /\ UNCHANGED <<mode, fixed_entry, min_entry, max_entry, generate_button,
                   save_tags_button, save_sources_button, results_text, tag_pool_text,
                   tag_pool_label_var, status_var, post_source_urls, full_tag_pool,
                   messagebox>>

\* update_ui(tags, message)
update_ui(tags, message) ==
    /\ status_var' = message
    /\ results_text' = IF tags # <<>>
                       THEN join(<<",", " ">>, [k \in DOMAIN tags |-> replace(tags[k])])
                       ELSE <<>>
    /\ save_tags_button' = IF tags # <<>> THEN "normal" ELSE save_tags_button
    /\ tag_pool_label_var' = IF full_tag_pool # EmptyBag
                             THEN Msg("Full Tag Pool (n tags)", BagSize(full_tag_pool))
                             ELSE Msg("Full Tag Pool", 0)
    /\ tag_pool_text' = FormattedPool(full_tag_pool)
    /\ save_sources_button' = IF post_source_urls # {} THEN "normal" ELSE save_sources_button
    /\ generate_button' = "normal"
    /\ UNCHANGED <<workers, mode, fixed_entry, min_entry, max_entry, post_source_urls,
                   full_tag_pool, messagebox>>

\* self.status_var.set(message)
status_var_set(message) ==
    /\ status_var' = message
    /\ UNCHANGED <<workers, mode, fixed_entry, min_entry, max_entry, generate_button,
                   save_tags_button, save_sources_button, results_text, tag_pool_text,
                   tag_pool_label_var, post_source_urls, full_tag_pool, messagebox>>

\* the main loop runs the oldest callback scheduled with after(0, ...)
RunAfter ==
    /\ afterQueue # <<>>
    /\ afterQueue' = Tail(afterQueue)
    /\ IF Head(afterQueue).fn = "update_ui"
       THEN update_ui(Head(afterQueue).tags, Head(afterQueue).message)
       ELSE status_var_set(Head(afterQueue).message)

\* a failed write that also empties the results box
save_tags_file_resets(outcome) ==
    /\ save_tags_button = "normal"
    /\ Len(afterQueue) < MaxQueue
    /\ LET content == strip(results_text)
       IN  IF content = <<>>
           THEN /\ messagebox' = Msg("Warning: no tags to save", 0)
                /\ UNCHANGED <<afterQueue, results_text>>
           ELSE IF outcome = "cancelled"
           THEN UNCHANGED <<messagebox, afterQueue, results_text>>
           ELSE IF outcome = "written"
           THEN /\ afterQueue' = update_status(afterQueue, Msg("Tags saved to", 0))
                /\ UNCHANGED <<messagebox, results_text>>
           ELSE /\ messagebox' = Msg("Save Error", 0)
                /\ results_text' = <<>>
                /\ UNCHANGED afterQueue
    /\ UNCHANGED <<workers, mode, fixed_entry, min_entry, max_entry, generate_button,
                   save_tags_button, save_sources_button, tag_pool_text,
                   tag_pool_label_var, status_var, post_source_urls, full_tag_pool>>

\* the command of the "Save Tags to .txt" button
save_tags_file(outcome) ==
    /\ save_tags_button = "normal"
    /\ Len(afterQueue) < MaxQueue
    /\ LET content == strip(results_text)
       IN  IF content = <<>>
           THEN /\ messagebox' = Msg("Warning: no tags to save", 0)
                /\ UNCHANGED afterQueue
           ELSE IF outcome = "cancelled"
           THEN UNCHANGED <<messagebox, afterQueue>>
           ELSE IF outcome = "written"
           THEN /\ afterQueue' = update_status(afterQueue, Msg("Tags saved to", 0))
                /\ UNCHANGED messagebox
           ELSE /\ messagebox' = Msg("Save Error", 0)
                /\ UNCHANGED afterQueue
    /\ UNCHANGED <<workers, mode, fixed_entry, min_entry, max_entry, generate_button,
                   save_tags_button, save_sources_button, results_text, tag_pool_text,
                   tag_pool_label_var, status_var, post_source_urls, full_tag_pool>>

SaveTags == \E outcome \in SaveOutcomes : save_tags_file(outcome)

\* the command of the "Save Post Sources to .txt" button
save_post_sources(outcome) ==
    /\ save_sources_button = "normal"
    /\ Len(afterQueue) < MaxQueue
    /\ IF post_source_urls = {}
       THEN /\ messagebox' = Msg("Warning: no post sources to save", 0)
            /\ UNCHANGED afterQueue
       ELSE IF outcome = "cancelled"
       THEN UNCHANGED <<messagebox, afterQueue>>
       ELSE IF outcome = "written"
       THEN /\ afterQueue' = update_status(afterQueue, Msg("Post sources saved to", 0))
            /\ UNCHANGED messagebox
       ELSE /\ messagebox' = Msg("Save Error", 0)
            /\ UNCHANGED afterQueue
    /\ UNCHANGED <<workers, mode, fixed_entry, min_entry, max_entry, generate_button,
                   save_tags_button, save_sources_button, results_text, tag_pool_text,
                   tag_pool_label_var, status_var, post_source_urls, full_tag_pool>>

SaveSources == \E outcome \in SaveOutcomes : save_post_sources(outcome)

\* --------------------------------------------------------- the application
Init ==
    /\ InitGui
    /\ workers = [i \in Threads |-> NoThread]

WorkerNext ==
    \E i \in Threads :
        \/ RunFetchStart(i)
        \/ LoopIteration(i)
        \/ LoopExit(i)
        \/ StoreResults(i)
        \/ ScheduleUpdateUi(i)

UserNext == ToggleMode \/ Generate \/ SaveTags \/ SaveSources

Next == UserNext \/ WorkerNext \/ RunAfter

\* a started thread keeps running and the main loop keeps serving its callbacks;
\* nothing obliges the user to act
Spec == Init /\ [][Next]_vars /\ WF_vars(WorkerNext) /\ WF_vars(RunAfter)

\* ------------------------------------------- fetch_tags(count) on its own
InitFetch ==
    /\ InitGui
    /\ \E c \in (0 - MaxNegative)..MaxCount :
          workers = [i \in Threads |-> IF i = 1 THEN FetchEntry(c) ELSE NoThread]

NextFetch == LoopIteration(1) \/ LoopExit(1)

SpecFetch == InitFetch /\ [][NextFetch]_vars /\ WF_vars(NextFetch)

\* ------------------------------------------------------------- properties
Returned(i) == workers[i].pc = "returned"

Distinct(s) == \A a, b \in DOMAIN s : a # b => s[a] # s[b]

\* C1: a fetch with count >= 0 that returns a success status returns a sample of
\* exactly count elements, no element twice, every element one of the full pool.
C1_SuccessSample ==
    \A i \in Threads :
        LET w == workers[i] IN
        (Returned(i) /\ w.count >= 0 /\ w.ret.message.kind = "Success") =>
            /\ Len(w.ret.tags) = w.count
            /\ Distinct(w.ret.tags)
            /\ \A a \in DOMAIN w.ret.tags : BagIn(w.ret.tags[a], w.ret.full_pool)

C1_Witness ==
    \E i \in Threads :
        /\ Returned(i)
        /\ workers[i].ret.message.kind = "Success"
        /\ workers[i].count >= 2
        /\ Len(workers[i].ret.tags) >= 2
        /\ BagSize(workers[i].ret.full_pool) > Len(workers[i].ret.tags)

\* C2: a request that ends in a transport failure ends the fetch at once: the
\* fetch returns an empty sample, source set and full pool with an error status,
\* whatever earlier requests collected, and no further request can be issued.
C2_FailFast ==
    /\ [](\A i \in Threads :
            (Returned(i) /\ workers[i].ret.message.kind = "Error") =>
                /\ workers[i].ret.tags = <<>>
                /\ workers[i].ret.post_urls = {}
                /\ workers[i].ret.full_pool = EmptyBag
                /\ ~ENABLED LoopIteration(i))
    /\ [][\A i \in Threads : \A r \in ResponseIds :
            (~Responses[r].ok /\ Request(i, Responses[r])) =>
                /\ workers'[i].pc = "returned"
                /\ workers'[i].ret.message.kind = "Error"
                /\ workers'[i].requests_made = workers[i].requests_made + 1]_vars

C2_Witness ==
    \E i \in Threads :
        /\ Returned(i)
        /\ workers[i].ret.message.kind = "Error"
        /\ workers[i].requests_made >= 2
        /\ workers[i].collected_tags # {}
        /\ workers[i].source_post_urls # {}

\* C3: a fetch that ends without transport failure with a pool of fewer than
\* count elements returns a warning, the whole pool as the sample (every element
\* exactly once), and the collected sources; for count >= 0 only after all
\* max_requests requests.
C3_Shortfall ==
    \A i \in Threads :
        LET w == workers[i] IN
        (Returned(i) /\ w.ret.message.kind # "Error"
                     /\ BagSize(final_pool(w)) < w.count) =>
            /\ w.ret.message.kind = "Warning"
            /\ w.ret.full_pool = final_pool(w)
            /\ SeqBag(w.ret.tags) = w.ret.full_pool
            /\ Distinct(w.ret.tags)
            /\ w.ret.post_urls = w.source_post_urls
            /\ w.count >= 0 => w.requests_made = max_requests

C3_Witness ==
    \E i \in Threads :
        /\ Returned(i)
        /\ workers[i].ret.message.kind = "Warning"
        /\ workers[i].ret.tags # <<>>
        /\ workers[i].ret.post_urls # {}
        /\ workers[i].requests_made = max_requests

\* C4: a request is issued only while fewer than count*3+20 candidates are
\* collected and fewer than 10 requests were made; an empty post list uses up one
\* attempt and adds nothing; so never more than 10 requests are issued.  The fetch
\* ends: in the loop a step is always possible, and every step either leaves the
\* loop or uses up one of the 10 attempts; with count >= 0 it ends by returning.
C4_BoundedFetch ==
    /\ [][\A i \in Threads :
            workers'[i].requests_made > workers[i].requests_made =>
                /\ workers[i].pc = "loop"
                /\ Cardinality(workers[i].collected_tags)
                       + Cardinality(workers[i].collected_artist_tags)
                       < workers[i].count * 3 + 20
                /\ workers[i].requests_made < 10
                /\ workers'[i].requests_made = workers[i].requests_made + 1]_vars
    /\ [][\A i \in Threads :
            Request(i, [ok |-> TRUE, posts |-> <<>>]) =>
                workers'[i] = [workers[i] EXCEPT !.requests_made = @ + 1]]_vars
    /\ [](\A i \in Threads : workers[i].requests_made <= 10)
    /\ [](\A i \in Threads :
            workers[i].pc = "loop" => ENABLED (LoopIteration(i) \/ LoopExit(i)))
    /\ [][\A i \in Threads :
            (workers[i].pc = "loop" /\ workers'[i] # workers[i]) =>
                \/ workers'[i].pc \in {"returned", "raised"}
                \/ /\ workers'[i].pc = "loop"
                   /\ workers'[i].requests_made = workers[i].requests_made + 1]_vars
    /\ [](\A i \in Threads : workers[i].pc = "raised" => workers[i].count < 0)

C4_Witness ==
    \E i \in Threads :
        /\ Returned(i)
        /\ workers[i].requests_made = 10
        /\ workers[i].count >= 0
        /\ workers[i].collected_tags = {}
        /\ workers[i].ret.message.kind = "Success"

\* C5 as stated: for every fetch (of a positive count) that returns, the returned
\* full pool has |collected_tags| + |collected_artist_tags| elements, no string
\* twice, and no string is both a non-artist entry and an "artist: " entry.
C5_Original ==
    \A i \in Threads :
        LET w == workers[i] IN
        (Returned(i) /\ w.count > 0) =>
            /\ BagSize(w.ret.full_pool)
                   = Cardinality(w.collected_tags) + Cardinality(w.collected_artist_tags)
            /\ \A t \in BagToSet(w.ret.full_pool) : CopiesIn(t, w.ret.full_pool) = 1
            /\ w.collected_tags \cap {ArtistTag(t) : t \in w.collected_artist_tags} = {}

\* C5, amended: the same for every fetch that returns without a transport
\* failure (a failed fetch returns an empty pool whatever was collected).
C5_PoolDisjoint ==
    \A i \in Threads :
        LET w == workers[i] IN
        (Returned(i) /\ w.ret.message.kind # "Error") =>
            /\ BagSize(w.ret.full_pool)
                   = Cardinality(w.collected_tags) + Cardinality(w.collected_artist_tags)
            /\ \A t \in BagToSet(w.ret.full_pool) : CopiesIn(t, w.ret.full_pool) = 1
            /\ w.collected_tags \cap {ArtistTag(t) : t \in w.collected_artist_tags} = {}

\* the tag a_b seen as an artist and as a general tag, beside the general tag
\* artist:a_b
C5_Witness ==
    \E i \in Threads :
        /\ Returned(i)
        /\ workers[i].ret.message.kind # "Error"
        /\ TagAB \in workers[i].collected_tags \cap workers[i].collected_artist_tags
        /\ (<<"a", "r", "t", "i", "s", "t", ":">> \o TagAB) \in workers[i].collected_tags
        /\ BagIn(<<"a", "r", "t", "i", "s", "t", ":", " ">> \o TagAB, workers[i].ret.full_pool)

\* entry texts that are no integers, and pairs (min, max) of integers with min > max
C6_NonInteger == {<<>>, <<"x">>, <<"1", ".", "5">>}

C6_Inverted == {<<<<" ", "1", " ">>, <<"0">>>>, <<<<"0">>, <<"-", "1">>>>,
                <<<<" ", "1", " ">>, <<"-", "1">>>>}

\* what the rejected trigger must leave behind
C6_Rejected(box) ==
    /\ messagebox' = box
    /\ workers' = workers
    /\ \A i \in Threads : workers'[i].pc = "none" \/ workers'[i].pc = "raised"
    /\ generate_button' = "normal"

\* C6: the trigger invoked with an inverted range or a non-integer active field
\* shows a validation error, starts no thread (so no fetch and no request), and
\* leaves the generate button enabled.
C6_InvalidInputRejected ==
    [][/\ (generate_button = "normal" /\ mode = "fixed") =>
            \A f \in EntryIds :
                (/\ EntryTexts[f] \in C6_NonInteger
                 /\ start_generation_thread(EntryTexts[f], <<>>, <<>>)) =>
                    C6_Rejected(Msg("Input Error: whole numbers", 0))
       /\ (generate_button = "normal" /\ mode = "random") =>
            \A mn \in EntryIds, mx \in EntryIds :
                /\ (/\ (EntryTexts[mn] \in C6_NonInteger \/ EntryTexts[mx] \in C6_NonInteger)
                    /\ start_generation_thread(<<>>, EntryTexts[mn], EntryTexts[mx])) =>
                       C6_Rejected(Msg("Input Error: whole numbers", 0))
                /\ (/\ <<EntryTexts[mn], EntryTexts[mx]>> \in C6_Inverted
                    /\ start_generation_thread(<<>>, EntryTexts[mn], EntryTexts[mx])) =>
                       C6_Rejected(Msg("Input Error: minimum greater than maximum", 0))]_vars

C6_Witness ==
    /\ messagebox = Msg("Input Error: minimum greater than maximum", 0)
    /\ generate_button = "normal"
    /\ \A i \in Threads : workers[i].pc = "none"
    /\ afterQueue # <<>>
    /\ afterQueue[Len(afterQueue)].message = Msg("Ready.", 0)

\* C7 as stated, as a safety property: a disabled generate button always has
\* something left that will enable it again, a running worker thread or a pending
\* update_ui callback (nothing else enables it: validation failures enable it
\* within the handler that disabled it).
C7_Original ==
    generate_button = "disabled" =>
        \/ \E i \in Threads : Running(i)
        \/ \E k \in DOMAIN afterQueue : afterQueue[k].fn = "update_ui"

\* C8 as stated: every thread is started, and fetch_tags entered, with a positive
\* count.
C8_Original == \A i \in Threads : workers[i].pc # "none" => workers[i].count > 0

\* C9: a save action whose dialog is cancelled or whose write fails leaves the
\* results box, the pool box, the stored pool and sources and the three buttons
\* as they were.
C9_FailedSaveFrame ==
    [][\A outcome \in {"cancelled", "IOError"} :
          (save_tags_file(outcome) \/ save_post_sources(outcome)) =>
              UNCHANGED <<results_text, tag_pool_text, full_tag_pool, post_source_urls,
                          generate_button, save_tags_button, save_sources_button>>]_vars

C9_Witness ==
    /\ messagebox = Msg("Save Error", 0)
    /\ results_text # <<>>
    /\ post_source_urls # {}
    /\ save_tags_button = "normal"
    /\ save_sources_button = "normal"

\* C10: while a worker thread runs, the generate button and both save buttons are
\* disabled, no other worker thread runs, and neither the trigger nor a save
\* action (the other writer and the reader of the instance fields) can run.
C10_OneWorker ==
    \A i \in Threads :
        Running(i) =>
            /\ generate_button = "disabled"
            /\ save_tags_button = "disabled"
            /\ save_sources_button = "disabled"
            /\ \A j \in Threads : Running(j) => j = i
            /\ ~ENABLED (Generate \/ SaveTags \/ SaveSources)

C10_Witness ==
    \E i \in Threads :
        /\ workers[i].pc = "stored"
        /\ post_source_urls # {}
        /\ full_tag_pool # EmptyBag
        /\ generate_button = "disabled"

====
